---- MODULE Spec2Model ----
(***************************************************************************)
(* A model of variant_repack/commands/build.py: the configuration resolver *)
(* (read_configuration, memoised by functools.lru_cache), the metadata     *)
(* rewriter (repack_variant, rename_package) and the repackaging           *)
(* orchestrator (make_variant), over a small file system.                  *)
(*                                                                         *)
(* Strings are sequences of symbols.  A symbol is one character ("+", "-", *)
(* ".", "_", "0", "1") or an atom standing for a run of letters and digits *)
(* that the code never cuts ("pkg", "cu126", "whl").                       *)
(***************************************************************************)
EXTENDS Integers, Sequences, FiniteSets, TLC

(***************************************************************************)
(* Strings                                                                 *)
(***************************************************************************)

\* The symbols of the dependency strings, in the order Python compares the
\* strings they stand for (no atom is a prefix of another one).
Alphabet ==
    << "+", "-", ".", "0", "1", "_", "bar", "foo", "keep", "new", "old",
       "pkg", "thing" >>

Ord(c) == CHOOSE i \in 1..Len(Alphabet) : Alphabet[i] = c

\* The class [a-zA-Z0-9_\.] of the two local-tag patterns.
IsTagChar(c) == c \notin {"+", "-", "!"}

\* Python's None where a name (a TLA+ string) is expected, and where a string
\* of symbols is expected.
None == "None"
NoStr == << "None" >>

Tail2(s, n) == SubSeq(s, n, Len(s))

StartsWith(s, p) == Len(p) <= Len(s) /\ SubSeq(s, 1, Len(p)) = p

EndsWith(s, p) == Len(p) <= Len(s) /\ SubSeq(s, Len(s) - Len(p) + 1, Len(s)) = p

\* a < b for Python strings: the first differing symbol decides, a proper
\* prefix is smaller.
StrLess(a, b) ==
    \E i \in 1..(Len(b)) :
        /\ \A j \in 1..(i - 1) : j <= Len(a) /\ a[j] = b[j]
        /\ \/ i = Len(a) + 1
           \/ i <= Len(a) /\ Ord(a[i]) < Ord(b[i])

\* str.split(sep) for a one-symbol separator.
RECURSIVE Split(_, _)
Split(s, sep) ==
    IF \A i \in 1..Len(s) : s[i] # sep
    THEN << s >>
    ELSE LET i == CHOOSE k \in 1..Len(s) :
                      s[k] = sep /\ \A j \in 1..(k - 1) : s[j] # sep
         IN  << SubSeq(s, 1, i - 1) >> \o Split(Tail2(s, i + 1), sep)

\* str.split(sep, maxsplit=1)
Split1(s, sep) ==
    IF \A i \in 1..Len(s) : s[i] # sep
    THEN << s >>
    ELSE LET i == CHOOSE k \in 1..Len(s) :
                      s[k] = sep /\ \A j \in 1..(k - 1) : s[j] # sep
         IN  << SubSeq(s, 1, i - 1), Tail2(s, i + 1) >>

\* sep.join(parts)
RECURSIVE Join(_, _)
Join(parts, sep) ==
    IF Len(parts) = 0 THEN << >>
    ELSE IF Len(parts) = 1 THEN parts[1]
    ELSE parts[1] \o << sep >> \o Join(Tail(parts), sep)

\* str.replace(a, b) for one-symbol a and b.
Replace(s, a, b) == [i \in 1..Len(s) |-> IF s[i] = a THEN b ELSE s[i]]

\* The length of the longest run of tag characters that starts at s[i].
RECURSIVE TagRun(_, _)
TagRun(s, i) ==
    IF i > Len(s) \/ ~IsTagChar(s[i]) THEN 0 ELSE 1 + TagRun(s, i + 1)

\* re.sub with count=1: only the first local tag is removed.
StripLocalTag_first(s) ==
    IF \E i \in 1..Len(s) : s[i] = "+" /\ TagRun(s, i + 1) > 0
    THEN LET i == CHOOSE k \in 1..Len(s) :
                      /\ s[k] = "+" /\ TagRun(s, k + 1) > 0
                      /\ \A j \in 1..(k - 1) : ~(s[j] = "+" /\ TagRun(s, j + 1) > 0)
         IN  SubSeq(s, 1, i - 1) \o Tail2(s, i + 1 + TagRun(s, i + 1))
    ELSE s

\* re.sub(r"\+[a-zA-Z0-9_\.]+", "", s): every "+" that a tag character
\* follows is removed with the whole run of tag characters after it.
RECURSIVE StripLocalTag(_)
StripLocalTag(s) ==
    IF s = << >> THEN << >>
    ELSE IF s[1] = "+" /\ TagRun(s, 2) > 0
         THEN StripLocalTag(Tail2(s, 2 + TagRun(s, 2)))
         ELSE << s[1] >> \o StripLocalTag(Tail(s))

\* The number of symbols of the run s[i..i+n-1] up to and including its last
\* "." that at least one symbol precedes; 0 when there is none.  This is the
\* longest match of [a-zA-Z0-9_\.]+\. inside the run (the pattern backtracks).
DotMatch(s, i, n) ==
    LET ds == {k \in 2..n : s[i + k - 1] = "."}
    IN  IF ds = {} THEN 0 ELSE CHOOSE k \in ds : \A m \in ds : m <= k

\* re.sub(r"\+[a-zA-Z0-9_\.]+\.", ".", s)
RECURSIVE StripLocalTagDot(_)
StripLocalTagDot(s) ==
    IF s = << >> THEN << >>
    ELSE IF s[1] = "+" /\ DotMatch(s, 2, TagRun(s, 2)) > 0
         THEN << "." >> \o StripLocalTagDot(Tail2(s, 2 + DotMatch(s, 2, TagRun(s, 2))))
         ELSE << s[1] >> \o StripLocalTagDot(Tail(s))

\* replace_from_end without the test of the end: the last len(old) symbols go.
replace_from_end_unchecked(s, old, new) ==
    IF Len(old) <= Len(s) THEN SubSeq(s, 1, Len(s) - Len(old)) \o new ELSE s

\* build.py, replace_from_end
replace_from_end(s, old, new) ==
    IF EndsWith(s, old)
    THEN IF old # << >> THEN SubSeq(s, 1, Len(s) - Len(old)) \o new ELSE s \o new
    ELSE s

\* sanitize_wheel_filename on segment index 0.
sanitize_wheel_filename_name(filename) ==
    LET parts == Split(filename, "-")
    IN  IF Len(parts) < 2 THEN NoStr
        ELSE Join([parts EXCEPT ![1] = StripLocalTag(parts[1])], "-")

\* build.py, sanitize_wheel_filename: the result, or None for the ValueError.
sanitize_wheel_filename(filename) ==
    LET parts == Split(filename, "-")
    IN  IF Len(parts) < 2 THEN NoStr
        ELSE Join([parts EXCEPT ![2] = StripLocalTag(parts[2])], "-")

\* sorted(xs) for a list of strings: insertion into the sorted rest.
RECURSIVE Insert(_, _)
Insert(x, xs) ==
    IF xs = << >> THEN << x >>
    ELSE IF StrLess(xs[1], x) THEN << xs[1] >> \o Insert(x, Tail(xs))
    ELSE << x >> \o xs

RECURSIVE Sorted(_)
Sorted(xs) == IF xs = << >> THEN << >> ELSE Insert(xs[1], Sorted(Tail(xs)))

\* dict.get(key, default)
Get(d, key, default) == IF key \in DOMAIN d THEN d[key] ELSE default

(***************************************************************************)
(* Bounds                                                                  *)
(***************************************************************************)

\* The threads of the process that call into build.py.
NumRuns == 2
\* The calls one behaviour makes in the specifications of direct calls.
MaxCalls == 3
\* The longest list of Requires-Dist fields of a record handed to the rewriter.
MaxDeps == 2
\* The longest file name given to sanitize_wheel_filename, and the longest
\* string and suffix given to replace_from_end.
MaxLen == 6
MaxStr == 4
MaxSuffix == 2

Runs == 1..NumRuns

(***************************************************************************)
(* Metadata records, archives and the file system                          *)
(***************************************************************************)

DistInfoSuffix == << ".", "dist", "-", "info" >>
WhlSuffix == << ".", "whl" >>
\* The tag line wheel_pack computes from the Tag fields of WHEEL.
Tagline == << "py3", "-", "none", "-", "any" >>

V100 == << "1", ".", "0", ".", "0" >>
Cu126 == << "+", "cu126" >>

NoRecord == [Name |-> NoStr, Version |-> NoStr, deps |-> << >>, present |-> FALSE]

\* A METADATA record: Name, Version (NoStr when the field is missing) and the
\* Requires-Dist values in file order.
Record(name, version, deps) ==
    [Name |-> name, Version |-> version, deps |-> deps, present |-> TRUE]

\* The content of a directory of the unpacked tree: the METADATA record
\* (NoRecord when there is no such file) and the variant descriptor file
\* (NoStr when there is none, else the label it was written for).
DirContent(rec, desc) == [METADATA |-> rec, variant |-> desc]

\* An archive: its dist-info directories by name.
Archive(dirs) == [dirs |-> dirs]

DepOldThing == << "old", "-", "thing" >>
DepKeep == << "keep" >>
DepNew == << "new" >>
DepOld == << "old" >>

\* The archives of the input directory are built from a distribution name (the
\* Name field), a local version tag, a variant label already in the file name,
\* and a shape: well formed, a record without Version, an archive without
\* METADATA, an archive without a dist-info directory.
DistNames == { << "pkg" >>, << "pkg", "-", "cu126" >> }
LocalTags == { << >>, Cu126 }
NameLabels == { << >>, << "-", "v1" >> }
Shapes == { "ok", "noversion", "nometadata", "nodistinfo" }

ArchiveKeys == DistNames \X LocalTags \X NameLabels \X Shapes

\* The file-name prefix of a shape: archives of different shapes are different
\* files of the directory.
ShapeName(name, shape) ==
    CASE shape = "ok" -> name
      [] shape = "noversion" -> << "bar" >>
      [] shape = "nometadata" -> << "foo" >>
      [] shape = "nodistinfo" -> << "any" >>

ArchiveDistInfo(k) ==
    Replace(ShapeName(k[1], k[4]), "-", "_") \o << "-" >> \o V100 \o k[2] \o DistInfoSuffix

ArchiveFileName(k) ==
    Replace(ShapeName(k[1], k[4]), "-", "_") \o << "-" >> \o V100 \o k[2]
        \o << "-" >> \o Tagline \o k[3] \o WhlSuffix

ArchiveContent(k) ==
    LET rec == Record(ShapeName(k[1], k[4]),
                      IF k[4] = "noversion" THEN NoStr ELSE V100 \o k[2],
                      IF k[1] = << "pkg" >> THEN << DepOldThing, DepKeep >> ELSE << >>)
        desc == IF k[3] = << >> THEN NoStr ELSE << "v1" >>
    IN  CASE k[4] = "nodistinfo" -> Archive(<< >>)
          [] k[4] = "nometadata" ->
                Archive(ArchiveDistInfo(k) :> DirContent(NoRecord, desc))
          [] OTHER -> Archive(ArchiveDistInfo(k) :> DirContent(rec, desc))

\* A file of the input directory that is no archive by its name.
BadFileName == << "pkg", ".", "whl" >>
\* A name no file of the input directory has.
MissingFileName == << "bar", ".", "whl" >>

Dirs == { "d1", "d2" }
NoDir == "nodir"

InitialFs ==
    [d \in Dirs |->
        IF d = "d1"
        THEN [n \in {ArchiveFileName(k) : k \in ArchiveKeys} \cup {BadFileName} |->
                IF n = BadFileName THEN Archive(<< >>)
                ELSE ArchiveContent(CHOOSE k \in ArchiveKeys : ArchiveFileName(k) = n)]
        ELSE << >>]

(***************************************************************************)
(* Configuration files                                                     *)
(***************************************************************************)

\* A metadata profile is a table: only the keys that are set are in its domain.
OptKey(key, isSet, value) == IF isSet THEN key :> value ELSE << >>

MetadataProfile(rename, normName, normVersion, remove, add) ==
    OptKey("rename_package_to", rename # NoStr, rename)
        @@ OptKey("normalize_package_name", normName, TRUE)
        @@ OptKey("normalize_version", normVersion, TRUE)
        @@ OptKey("deps_remove_list", remove # << >>, remove)
        @@ OptKey("deps_add_list", add # << >>, add)

VariantProfile(label, props) ==
    OptKey("variant_label", label # NoStr, label)
        @@ OptKey("properties", props # << >>, props)

\* One property triple {namespace, feature, value} of the tests' profile.
PropNs == [namespace |-> "ns", feature |-> "feat", value |-> "val"]

\* The configuration file of the orchestrator's runs: the profile of
\* tests/test_build_helpers.py ("default", "myv") and profiles for the other
\* branches of the rewriter and of the label choice.
ConfigToml ==
    [metadata_configs |->
        [default |-> MetadataProfile(NoStr, TRUE, FALSE, << DepOld >>, << DepNew >>),
         ren |-> MetadataProfile(<< "foo" >>, FALSE, FALSE, << >>, << >>),
         renver |-> MetadataProfile(<< "foo" >>, TRUE, TRUE, << >>, << DepKeep >>),
         ver |-> MetadataProfile(NoStr, FALSE, TRUE, << >>, << >>),
         plain |-> MetadataProfile(NoStr, FALSE, FALSE, << >>, << >>)],
     variant_configs |->
        [myv |-> VariantProfile(<< "v1" >>, << PropNs >>),
         auto |-> VariantProfile(NoStr, << PropNs >>),
         empty |-> VariantProfile(NoStr, << >>),
         bad |-> VariantProfile(<< "V1" >>, << >>)]]

\* The same file without one of its tables, or without both.
WithoutTables(file, tables) == [t \in DOMAIN file \ tables |-> file[t]]

ConfigPath == "c1"
\* A path at which there is no file.
MissingPath == "c0"
Paths == { ConfigPath, MissingPath }

MetadataNames == { None, "missing" } \cup DOMAIN ConfigToml.metadata_configs
VariantNames == { None, "missing" } \cup DOMAIN ConfigToml.variant_configs
Keys == Paths \X MetadataNames \X VariantNames

(***************************************************************************)
(* Errors                                                                  *)
(***************************************************************************)

\* An exception: its class, the step that raised it and, for the KeyError of
\* read_configuration, the table, the profile name and the names the message
\* lists.
Error(kind, at) == [kind |-> kind, at |-> at, table |-> None, name |-> None, available |-> {}]
\* The same, about the input (name "input") or the output directory ("output").
ErrorAbout(kind, at, name) == [Error(kind, at) EXCEPT !.name = name]
ConfigError(table, name, available) ==
    [kind |-> "KeyError", at |-> "read_configuration", table |-> table, name |-> name,
     available |-> available]
NoErr == Error("none", None)

(***************************************************************************)
(* read_configuration                                                      *)
(***************************************************************************)

\* What read_configuration returns when it has not returned.
NoCfg == << >>

\* read_configuration with config["metadata_configs"] and
\* config["variant_configs"] in place of config.get: a file without a table
\* is refused whatever the names.
read_configuration_tables(config, metadata_config_name, variant_config_name) ==
    IF "metadata_configs" \notin DOMAIN config
    THEN [err |-> ConfigError("metadata_configs", metadata_config_name, { }),
          value |-> NoCfg]
    ELSE IF "variant_configs" \notin DOMAIN config
    THEN [err |-> ConfigError("variant_configs", variant_config_name, { }),
          value |-> NoCfg]
    ELSE IF metadata_config_name # None
           /\ metadata_config_name \notin DOMAIN config["metadata_configs"]
    THEN [err |-> ConfigError("metadata_configs", metadata_config_name,
                              DOMAIN config["metadata_configs"]),
          value |-> NoCfg]
    ELSE IF variant_config_name # None
           /\ variant_config_name \notin DOMAIN config["variant_configs"]
    THEN [err |-> ConfigError("variant_configs", variant_config_name,
                              DOMAIN config["variant_configs"]),
          value |-> NoCfg]
    ELSE [err |-> NoErr,
          value |-> << IF metadata_config_name # None
                       THEN config["metadata_configs"][metadata_config_name] ELSE << >>,
                       IF variant_config_name # None
                       THEN config["variant_configs"][variant_config_name] ELSE << >> >>]

\* The body of read_configuration on the parsed file: the pair of profiles,
\* or the error of the first profile that is not found.
read_configuration_vfirst(config, metadata_config_name, variant_config_name) ==
    LET base_metadata_config == Get(config, "metadata_configs", << >>)
        base_variant_configs == Get(config, "variant_configs", << >>)
    IN  IF variant_config_name # None
               /\ variant_config_name \notin DOMAIN base_variant_configs
        THEN [err |-> ConfigError("variant_configs", variant_config_name,
                                  DOMAIN base_variant_configs),
              value |-> NoCfg]
        ELSE IF metadata_config_name # None
               /\ metadata_config_name \notin DOMAIN base_metadata_config
        THEN [err |-> ConfigError("metadata_configs", metadata_config_name,
                                  DOMAIN base_metadata_config),
              value |-> NoCfg]
        ELSE [err |-> NoErr,
              value |-> << IF metadata_config_name # None
                           THEN base_metadata_config[metadata_config_name] ELSE << >>,
                           IF variant_config_name # None
                           THEN base_variant_configs[variant_config_name] ELSE << >> >>]

read_configuration(config, metadata_config_name, variant_config_name) ==
    LET base_metadata_config == Get(config, "metadata_configs", << >>)
        base_variant_configs == Get(config, "variant_configs", << >>)
    IN  IF metadata_config_name # None
               /\ metadata_config_name \notin DOMAIN base_metadata_config
        THEN [err |-> ConfigError("metadata_configs", metadata_config_name,
                                  DOMAIN base_metadata_config),
              value |-> NoCfg]
        ELSE IF variant_config_name # None
               /\ variant_config_name \notin DOMAIN base_variant_configs
        THEN [err |-> ConfigError("variant_configs", variant_config_name,
                                  DOMAIN base_variant_configs),
              value |-> NoCfg]
        ELSE [err |-> NoErr,
              value |-> << IF metadata_config_name # None
                           THEN base_metadata_config[metadata_config_name] ELSE << >>,
                           IF variant_config_name # None
                           THEN base_variant_configs[variant_config_name] ELSE << >> >>]

\* functools.lru_cache without arguments keeps the 128 most recently used
\* results.
maxsize == 128

(***************************************************************************)
(* State                                                                   *)
(***************************************************************************)

VARIABLES
    fs,        \* the directories of archives: directory -> file name -> content
    cfgfiles,  \* the configuration files: path -> parsed content
    trees,     \* the scratch and working directories: id -> tree
    cache,     \* lru_cache of read_configuration, least recently used first
    reads,     \* key -> how often read_configuration loaded the file for it
    first,     \* key -> the first result returned for it (NoCfg: none yet)
    calls,     \* the calls started so far
    run        \* thread -> the frame of its call

vars == << fs, cfgfiles, trees, cache, reads, first, calls, run >>

NoArgs ==
    [input_dir |-> NoDir, input_name |-> NoStr, output_directory |-> NoDir,
     metadata_config_name |-> None, variant_config_name |-> None,
     config_toml_filepath |-> MissingPath, metadata_f |-> NoStr,
     filename |-> NoStr, s |-> NoStr, old |-> NoStr, new |-> NoStr]

\* The frame of a thread that is in no call.
IdleRun ==
    [pc |-> "idle", entry |-> None, args |-> NoArgs, err |-> NoErr,
     cfg |-> NoCfg, rcRet |-> None, rvRet |-> None,
     variant_label |-> NoStr, scratch |-> 0, inWith |-> FALSE, tree |-> 0,
     unpacked_dir |-> NoStr, distinfo_dir |-> NoStr,
     pre |-> FALSE, parsed |-> NoRecord,
     metadata |-> NoRecord, dist_info_dir |-> NoStr,
     tmp_whl |-> NoStr, output |-> NoStr, hist |-> << >>]

Ended(r) == run[r].pc \in { "done", "failed" }
CanStart(r) == run[r].pc = "idle" \/ Ended(r)

Key(s) ==
    << s.args.config_toml_filepath, s.args.metadata_config_name,
       s.args.variant_config_name >>

\* An exception leaves the call: inside the with block of make_variant the
\* scratch directory is removed on the way out.
Raise_nocleanup(s, e) == [s EXCEPT !.pc = "failed", !.err = e]

Raise(s, e) ==
    IF s.inWith
    THEN [s EXCEPT !.pc = "mv_cleanup", !.err = e]
    ELSE [s EXCEPT !.pc = "failed", !.err = e]

\* The frame after read_configuration returned value to its caller.
Returned(s, value) == [s EXCEPT !.pc = s.rcRet, !.cfg = value]

InCache(key) == \E i \in 1..Len(cache) : cache[i].key = key
CacheIndex(key) == CHOOSE i \in 1..Len(cache) : cache[i].key = key
WithoutIndex(q, i) == SubSeq(q, 1, i - 1) \o SubSeq(q, i + 1, Len(q))

NoteFirst(key, value) ==
    first' = IF first[key] = NoCfg THEN [first EXCEPT ![key] = value] ELSE first

\* lru_cache, the lookup: a hit returns the stored result and makes the entry
\* the most recently used; a miss goes on to call the function.
rc_lookup(r) ==
    LET s == run[r]
        key == Key(s)
    IN  /\ s.pc = "rc_lookup"
        /\ IF InCache(key)
           THEN LET i == CacheIndex(key)
                IN  /\ cache' = WithoutIndex(cache, i) \o << cache[i] >>
                    /\ run' = [run EXCEPT ![r] = Returned(s, cache[i].value)]
                    /\ NoteFirst(key, cache[i].value)
           ELSE /\ run' = [run EXCEPT ![r].pc = "rc_compute"]
                /\ UNCHANGED << cache, first >>
        /\ UNCHANGED << fs, cfgfiles, trees, reads, calls >>

\* lru_cache, the miss: the function runs (it opens and loads the file); a
\* result is stored unless the key was stored meanwhile, the least recently
\* used entry making room in a full cache; an exception is not stored.
rc_compute(r) ==
    LET s == run[r]
        key == Key(s)
        path == s.args.config_toml_filepath
    IN  /\ s.pc = "rc_compute"
        /\ IF path \notin DOMAIN cfgfiles
           THEN /\ run' = [run EXCEPT ![r] =
                              Raise(s, Error("FileNotFoundError", "read_configuration"))]
                /\ UNCHANGED << cache, reads, first >>
           ELSE LET res == read_configuration(cfgfiles[path],
                                              s.args.metadata_config_name,
                                              s.args.variant_config_name)
                    entry == [key |-> key, value |-> res.value]
                IN  /\ reads' = [reads EXCEPT ![key] = @ + 1]
                    /\ IF res.err # NoErr
                       THEN /\ run' = [run EXCEPT ![r] = Raise(s, res.err)]
                            /\ UNCHANGED << cache, first >>
                       ELSE /\ run' = [run EXCEPT ![r] = Returned(s, res.value)]
                            /\ NoteFirst(key, res.value)
                            /\ cache' =
                                 IF InCache(key) THEN cache
                                 ELSE IF Len(cache) >= maxsize
                                 THEN Tail(cache) \o << entry >>
                                 ELSE cache \o << entry >>
        /\ UNCHANGED << fs, cfgfiles, trees, calls >>

\* A caller calls read_configuration(path, metadata name, variant name).
StartResolve(r) ==
    /\ CanStart(r)
    /\ calls < MaxCalls
    /\ \E path \in Paths, m \in { None, "default", "missing" },
             v \in { None, "myv", "missing" } :
          run' = [run EXCEPT ![r] =
                    [IdleRun EXCEPT !.pc = "rc_lookup", !.entry = "read_configuration",
                                    !.rcRet = "done",
                                    !.args.config_toml_filepath = path,
                                    !.args.metadata_config_name = m,
                                    !.args.variant_config_name = v]]
    /\ calls' = calls + 1
    /\ UNCHANGED << fs, cfgfiles, trees, cache, reads, first >>

\* One of several threads calls read_configuration on the file, with one of
\* two profile pairs; the frame notes whether a call with the same triple had
\* already loaded the file and ended when this one started.
CallerMetadataNames == { "default", "missing" }
StartCaller(r) ==
    /\ CanStart(r)
    /\ calls < MaxCalls
    /\ \E m \in CallerMetadataNames :
          LET key == << ConfigPath, m, "myv" >>
          IN  run' = [run EXCEPT ![r] =
                        [IdleRun EXCEPT !.pc = "rc_lookup", !.entry = "read_configuration",
                                        !.rcRet = "done",
                                        !.args.config_toml_filepath = ConfigPath,
                                        !.args.metadata_config_name = m,
                                        !.args.variant_config_name = "myv",
                                        !.hist = IF reads[key] > 0
                                                 THEN << "after a completed call" >>
                                                 ELSE << >>]]
    /\ calls' = calls + 1
    /\ UNCHANGED << fs, cfgfiles, trees, cache, reads, first >>

(***************************************************************************)
(* repack_variant                                                          *)
(***************************************************************************)

\* A tree: the name of its top directory (NoStr in a working directory that
\* is the top itself), its dist-info directories by name, and the archives
\* beside the top directory.
Tree(top, dirs, whls) == [top |-> top, dirs |-> dirs, whls |-> whls]

\* A directory made anew under the new name with the record alone, in place
\* of a rename.
RenameDir_recordOnly(dirs, d, e) ==
    [n \in (DOMAIN dirs \ {d}) \cup {e} |->
        IF n = e THEN DirContent(dirs[d].METADATA, NoStr) ELSE dirs[n]]

\* The directory d of the tree under the name e.
RenameDir(dirs, d, e) ==
    [n \in (DOMAIN dirs \ {d}) \cup {e} |-> IF n = e THEN dirs[d] ELSE dirs[n]]

HasMetadata(tree, d) == d \in DOMAIN tree.dirs /\ tree.dirs[d].METADATA.present

\* The {normalized-name} component of a dist-info directory name.
NameComponent(d) == Split1(d, "-")[1]

\* The suffix patterns of package-name normalization, in the order of the code.
normalize_patterns ==
    << "cu11", "cu12", "cu13", "cu118", "cu126", "cu128", "cu129",
       "cuda11x", "cuda12x", "cuda13x", "cpu" >>

\* The loop over normalize_patterns from pattern i on.
RECURSIVE NormalizeFrom(_, _)
NormalizeFrom(package_name, i) ==
    IF i > Len(normalize_patterns) THEN package_name
    ELSE NormalizeFrom(
            replace_from_end(
                replace_from_end(package_name, << "-", normalize_patterns[i] >>, << >>),
                << "_", normalize_patterns[i] >>, << >>),
            i + 1)

\* The loop with one replace_from_end per pattern, the "_" form tried only
\* when the "-" form did not strip.
RECURSIVE NormalizeFrom_either(_, _)
NormalizeFrom_either(package_name, i) ==
    IF i > Len(normalize_patterns) THEN package_name
    ELSE NormalizeFrom_either(
            IF EndsWith(package_name, << "-", normalize_patterns[i] >>)
            THEN replace_from_end(package_name, << "-", normalize_patterns[i] >>, << >>)
            ELSE replace_from_end(package_name, << "_", normalize_patterns[i] >>, << >>),
            i + 1)

NormalizeName_either(package_name) == NormalizeFrom_either(package_name, 1)

NormalizeName(package_name) == NormalizeFrom(package_name, 1)

\* The name rename_package gives the dist-info directory.
NewDistInfoName(dist_info_name, new_pkg_name) ==
    Replace(new_pkg_name, "-", "_") \o << "-" >> \o Split1(dist_info_name, "-")[2]

\* The branches the other way round: normalize_package_name is looked at
\* first.
NewPackageName_normalizeFirst(metadata_config, metadata) ==
    IF Get(metadata_config, "normalize_package_name", FALSE)
    THEN NormalizeName(metadata.Name)
    ELSE IF Get(metadata_config, "rename_package_to", << >>) # << >>
    THEN metadata_config["rename_package_to"]
    ELSE NoStr

\* The Name the rewriter gives the record, NoStr when it keeps the Name.
NewPackageName(metadata_config, metadata) ==
    IF Get(metadata_config, "rename_package_to", << >>) # << >>
    THEN metadata_config["rename_package_to"]
    ELSE IF Get(metadata_config, "normalize_package_name", FALSE)
    THEN NormalizeName(metadata.Name)
    ELSE NoStr

\* metadata["Version"].split("+")[0]
NormalizeVersion(version) == Split(version, "+")[1]

\* The dependencies that start with no string of the remove list.
RECURSIVE Surviving(_, _)
Surviving(deps, remove) ==
    IF deps = << >> THEN << >>
    ELSE IF \E i \in 1..Len(remove) : StartsWith(deps[1], remove[i])
    THEN Surviving(Tail(deps), remove)
    ELSE << deps[1] >> \o Surviving(Tail(deps), remove)

\* The dependency rewrite: filter, extend, sort.
RewriteDeps_unsorted(input_dependencies, remove, add) ==
    Surviving(input_dependencies, remove) \o add

RewriteDeps(input_dependencies, remove, add) ==
    Sorted(Surviving(input_dependencies, remove) \o add)

Did(s, what) == [s EXCEPT !.hist = @ \o << what >>]

\* The input validation: the record and the configuration file are files.
rv_check(r) ==
    LET s == run[r]
    IN  /\ s.pc = "rv_check"
        /\ run' = [run EXCEPT ![r] =
              IF ~HasMetadata(trees[s.tree], s.args.metadata_f)
              THEN Raise(s, Error("FileNotFoundError", "rv_check"))
              ELSE IF s.args.config_toml_filepath \notin DOMAIN cfgfiles
              THEN Raise(s, Error("FileNotFoundError", "rv_check"))
              ELSE [s EXCEPT !.pc = "rc_lookup", !.rcRet = "rv_parse"]]
        /\ UNCHANGED << fs, cfgfiles, trees, cache, reads, first, calls >>

\* The record is parsed.
rv_parse(r) ==
    LET s == run[r]
        rec == trees[s.tree].dirs[s.args.metadata_f].METADATA
    IN  /\ s.pc = "rv_parse"
        /\ run' = [run EXCEPT ![r] =
              [s EXCEPT !.pc = "rv_rename", !.metadata = rec, !.parsed = rec]]
        /\ UNCHANGED << fs, cfgfiles, trees, cache, reads, first, calls >>

\* The renaming with rename_package writing the record into the renamed
\* directory at once.
rv_rename_writing(r) ==
    LET s == run[r]
        d == s.args.metadata_f
        new_pkg_name == NewPackageName(s.cfg[1], s.metadata)
        e == NewDistInfoName(d, new_pkg_name)
        dirs == trees[s.tree].dirs
    IN  /\ s.pc = "rv_rename"
        /\ IF new_pkg_name = NoStr
           THEN /\ run' = [run EXCEPT ![r] =
                            [s EXCEPT !.pc = "rv_version", !.dist_info_dir = d]]
                /\ UNCHANGED trees
           ELSE IF e # d /\ e \in DOMAIN dirs
           THEN /\ run' = [run EXCEPT ![r] = Raise(s, Error("OSError", "rv_rename"))]
                /\ UNCHANGED trees
           ELSE /\ run' = [run EXCEPT ![r] =
                            Did([s EXCEPT !.pc = "rv_version", !.dist_info_dir = e,
                                          !.metadata.Name = new_pkg_name],
                                "rename dist-info")]
                /\ trees' = [trees EXCEPT ![s.tree].dirs =
                                [RenameDir(dirs, d, e) EXCEPT ![e].METADATA.Name = new_pkg_name]]
        /\ UNCHANGED << fs, cfgfiles, cache, reads, first, calls >>

\* The renaming: rename_package sets Name in memory and renames the
\* directory on disk; without a new name the directory is the record's.
rv_rename(r) ==
    LET s == run[r]
        d == s.args.metadata_f
        new_pkg_name == NewPackageName(s.cfg[1], s.metadata)
        e == NewDistInfoName(d, new_pkg_name)
        dirs == trees[s.tree].dirs
    IN  /\ s.pc = "rv_rename"
        /\ IF new_pkg_name = NoStr
           THEN /\ run' = [run EXCEPT ![r] =
                            [s EXCEPT !.pc = "rv_version", !.dist_info_dir = d]]
                /\ UNCHANGED trees
           ELSE IF e # d /\ e \in DOMAIN dirs
           THEN /\ run' = [run EXCEPT ![r] = Raise(s, Error("OSError", "rv_rename"))]
                /\ UNCHANGED trees
           ELSE /\ run' = [run EXCEPT ![r] =
                            Did([s EXCEPT !.pc = "rv_version", !.dist_info_dir = e,
                                          !.metadata.Name = new_pkg_name],
                                "rename dist-info")]
                /\ trees' = [trees EXCEPT ![s.tree].dirs = RenameDir(dirs, d, e)]
        /\ UNCHANGED << fs, cfgfiles, cache, reads, first, calls >>

\* The version normalization; a record without Version makes it raise.
rv_version(r) ==
    LET s == run[r]
    IN  /\ s.pc = "rv_version"
        /\ run' = [run EXCEPT ![r] =
              IF ~Get(s.cfg[1], "normalize_version", FALSE)
              THEN [s EXCEPT !.pc = "rv_deps"]
              ELSE IF s.metadata.Version = NoStr
              THEN Raise(s, Error("AttributeError", "rv_version"))
              ELSE [s EXCEPT !.pc = "rv_deps",
                             !.metadata.Version = NormalizeVersion(s.metadata.Version)]]
        /\ UNCHANGED << fs, cfgfiles, trees, cache, reads, first, calls >>

\* The dependency rewrite, in memory.
rv_deps(r) ==
    LET s == run[r]
    IN  /\ s.pc = "rv_deps"
        /\ run' = [run EXCEPT ![r] =
              [s EXCEPT !.pc = "rv_write",
                        !.metadata.deps =
                            RewriteDeps(s.metadata.deps,
                                        Get(s.cfg[1], "deps_remove_list", << >>),
                                        Get(s.cfg[1], "deps_add_list", << >>))]]
        /\ UNCHANGED << fs, cfgfiles, trees, cache, reads, first, calls >>

\* The record is written into the directory and repack_variant returns.
rv_write(r) ==
    LET s == run[r]
    IN  /\ s.pc = "rv_write"
        /\ trees' = [trees EXCEPT ![s.tree].dirs[s.dist_info_dir].METADATA = s.metadata]
        /\ run' = [run EXCEPT ![r] = Did([s EXCEPT !.pc = s.rvRet], "write METADATA")]
        /\ UNCHANGED << fs, cfgfiles, cache, reads, first, calls >>

\* The precondition of the naming invariant: every record's directory is
\* named after its Name.
NamesAgree(tree) ==
    \A d \in DOMAIN tree.dirs :
        tree.dirs[d].METADATA.present
            => NameComponent(d) = Replace(tree.dirs[d].METADATA.Name, "-", "_")

\* A caller calls repack_variant, once, on a record of the working directory
\* or on a path at which there is no record.
StartRewrite(r) ==
    /\ run[r].pc = "idle"
    /\ calls = 0
    /\ \E d \in DOMAIN trees[0].dirs \cup { << "bar" >> },
          m \in { None, "default", "missing" } :
          run' = [run EXCEPT ![r] =
                    [IdleRun EXCEPT !.pc = "rv_check", !.entry = "repack_variant",
                                    !.rvRet = "done",
                                    !.pre = NamesAgree(trees[0]),
                                    !.args.config_toml_filepath = ConfigPath,
                                    !.args.metadata_config_name = m,
                                    !.args.metadata_f = d]]
    /\ calls' = calls + 1
    /\ UNCHANGED << fs, cfgfiles, trees, cache, reads, first >>

(***************************************************************************)
(* make_variant                                                            *)
(***************************************************************************)

\* The characters [0-9a-z._] of a variant label.
IsLabelChar(c) == c \notin { "+", "-", "V1" }
IsDigit(c) == c \in { "0", "1" }

\* VALIDATION_VARIANT_LABEL_REGEX.fullmatch(label), the pattern of variantlib
\* (its bound on the length is not modelled: no label of the model is long).
ValidVariantLabel(label) ==
    label # << >> /\ \A i \in 1..Len(label) : IsLabelChar(label[i])

\* VALIDATION_WHEEL_NAME_REGEX.fullmatch(name), the pattern of variantlib:
\* name-version[-build]-python-abi-platform[-label].whl, the build tag
\* starting with a digit.  The result is the group base_wheel_name (the name
\* without the label and the extension), NoStr when the name does not match.
BaseWheelName(name) ==
    IF ~EndsWith(name, WhlSuffix) THEN NoStr
    ELSE LET parts == Split(SubSeq(name, 1, Len(name) - Len(WhlSuffix)), "-")
             n == Len(parts)
             filled == \A i \in 1..n : i # 2 => parts[i] # << >>
             build == n >= 6 /\ IsDigit(parts[3][1])
             base == IF build THEN 6 ELSE 5
         IN  IF n < 5 \/ ~filled THEN NoStr
             ELSE IF n = base THEN Join(parts, "-")
             ELSE IF n = base + 1 /\ ValidVariantLabel(parts[n])
             THEN Join(SubSeq(parts, 1, base), "-")
             ELSE NoStr

\* VariantDescription(properties).hexdigest, the digest of variantlib: one
\* label per property set.
Digest(properties) == IF properties = << >> THEN << "h0" >> ELSE << "h1" >>

\* The label of a variant profile: its variant_label, else the digest.
VariantLabel(variant_config) ==
    IF "variant_label" \in DOMAIN variant_config
    THEN variant_config["variant_label"]
    ELSE Digest(Get(variant_config, "properties", << >>))

\* The first failing check of the input validation, NoErr when all pass.
Validate_outputFirst(files, dirs, args) ==
    IF args.output_directory \notin dirs
    THEN ErrorAbout("FileNotFoundError", "mv_validate", "output")
    ELSE IF args.input_name \notin DOMAIN files[args.input_dir]
    THEN ErrorAbout("FileNotFoundError", "mv_validate", "input")
    ELSE IF BaseWheelName(args.input_name) = NoStr
    THEN ErrorAbout("ValueError", "mv_validate", "input")
    ELSE NoErr

Validate(files, dirs, args) ==
    IF args.input_name \notin DOMAIN files[args.input_dir]
    THEN ErrorAbout("FileNotFoundError", "mv_validate", "input")
    ELSE IF BaseWheelName(args.input_name) = NoStr
    THEN ErrorAbout("ValueError", "mv_validate", "input")
    ELSE IF args.output_directory \notin dirs
    THEN ErrorAbout("FileNotFoundError", "mv_validate", "output")
    ELSE NoErr

\* The final file name: base and label, sanitized.
FinalName_unlabelled(base, label) == sanitize_wheel_filename(base \o WhlSuffix)

FinalName(base, label) ==
    sanitize_wheel_filename(base \o << "-" >> \o label \o WhlSuffix)

\* wheel_unpack extracts into {name}-{version} of the file name.
NameVer(name) == Join(SubSeq(Split(name, "-"), 1, 2), "-")

\* DIST_INFO_RE of wheel_pack: name-version.dist-info, the version starting
\* with a digit.
IsPackable(d) ==
    /\ EndsWith(d, DistInfoSuffix)
    /\ \E k \in 2..(Len(d) - Len(DistInfoSuffix) - 1) : d[k] = "-" /\ IsDigit(d[k + 1])

\* The file name wheel_pack gives the archive of a dist-info directory.
PackedName(d) ==
    SubSeq(d, 1, Len(d) - Len(DistInfoSuffix)) \o << "-" >> \o Tagline \o WhlSuffix

ScratchIds == 1..NumRuns

\* A caller calls make_variant, once.
StartMake(r, names, outputs, metadataNames, variantNames, paths) ==
    /\ run[r].pc = "idle"
    /\ \E n \in names, o \in outputs, m \in metadataNames, v \in variantNames,
          path \in paths :
          run' = [run EXCEPT ![r] =
                    [IdleRun EXCEPT !.pc = "mv_validate", !.entry = "make_variant",
                                    !.args.input_dir = "d1",
                                    !.args.input_name = n,
                                    !.args.output_directory = o,
                                    !.args.metadata_config_name = m,
                                    !.args.variant_config_name = v,
                                    !.args.config_toml_filepath = path]]
    /\ calls' = calls + 1
    /\ UNCHANGED << fs, cfgfiles, trees, cache, reads, first >>

\* The input validation; then the configuration is resolved.
mv_validate(r) ==
    LET s == run[r]
        e == Validate(fs, Dirs, s.args)
    IN  /\ s.pc = "mv_validate"
        /\ run' = [run EXCEPT ![r] =
              IF e # NoErr THEN Raise(s, e)
              ELSE [s EXCEPT !.pc = "rc_lookup", !.rcRet = "mv_label"]]
        /\ UNCHANGED << fs, cfgfiles, trees, cache, reads, first, calls >>

\* The label is chosen and validated.
mv_label_unvalidated(r) ==
    LET s == run[r]
    IN  /\ s.pc = "mv_label"
        /\ run' = [run EXCEPT ![r] =
              [s EXCEPT !.pc = "mv_mkdtemp", !.variant_label = VariantLabel(s.cfg[2])]]
        /\ UNCHANGED << fs, cfgfiles, trees, cache, reads, first, calls >>

mv_label(r) ==
    LET s == run[r]
        variant_label == VariantLabel(s.cfg[2])
    IN  /\ s.pc = "mv_label"
        /\ run' = [run EXCEPT ![r] =
              IF ~ValidVariantLabel(variant_label)
              THEN Raise([s EXCEPT !.variant_label = variant_label],
                         Error("ValueError", "mv_label"))
              ELSE [s EXCEPT !.pc = "mv_mkdtemp", !.variant_label = variant_label]]
        /\ UNCHANGED << fs, cfgfiles, trees, cache, reads, first, calls >>

\* tempfile.TemporaryDirectory(): a directory no run has or had.
mv_mkdtemp(r) ==
    LET s == run[r]
    IN  /\ s.pc = "mv_mkdtemp"
        /\ \E id \in ScratchIds \ (DOMAIN trees \cup { run[q].scratch : q \in Runs }) :
              /\ trees' = trees @@ (id :> Tree(NoStr, << >>, << >>))
              /\ run' = [run EXCEPT ![r] =
                    Did([s EXCEPT !.pc = "mv_unpack", !.scratch = id, !.tree = id,
                                  !.inWith = TRUE], "mkdtemp")]
        /\ UNCHANGED << fs, cfgfiles, cache, reads, first, calls >>

\* wheel_unpack: the archive's tree appears in the scratch directory, or the
\* archive is refused.
mv_unpack(r) ==
    LET s == run[r]
        name == s.args.input_name
    IN  /\ s.pc = "mv_unpack"
        /\ \/ /\ run' = [run EXCEPT ![r] = Raise(s, Error("WheelError", "mv_unpack"))]
              /\ UNCHANGED trees
           \/ /\ trees' = [trees EXCEPT ![s.tree] =
                              Tree(NameVer(name), fs[s.args.input_dir][name].dirs, << >>)]
              /\ run' = [run EXCEPT ![r] =
                    Did([s EXCEPT !.pc = "mv_find", !.unpacked_dir = NameVer(name)],
                        "unpack")]
        /\ UNCHANGED << fs, cfgfiles, cache, reads, first, calls >>

\* The lookup without the else branch of the loop: with no dist-info
\* directory the run goes on to the repack.
mv_find_unchecked(r) ==
    LET s == run[r]
        found == { d \in DOMAIN trees[s.tree].dirs : EndsWith(d, DistInfoSuffix) }
    IN  /\ s.pc = "mv_find"
        /\ IF found = { }
           THEN run' = [run EXCEPT ![r].pc = "mv_pack"]
           ELSE \E d \in found :
                   run' = [run EXCEPT ![r] = [s EXCEPT !.pc = "mv_strip", !.distinfo_dir = d]]
        /\ UNCHANGED << fs, cfgfiles, trees, cache, reads, first, calls >>

\* The dist-info directory is looked up.
mv_find(r) ==
    LET s == run[r]
        found == { d \in DOMAIN trees[s.tree].dirs : EndsWith(d, DistInfoSuffix) }
    IN  /\ s.pc = "mv_find"
        /\ IF found = { }
           THEN run' = [run EXCEPT ![r] = Raise(s, Error("FileNotFoundError", "mv_find"))]
           ELSE \E d \in found :
                   run' = [run EXCEPT ![r] = [s EXCEPT !.pc = "mv_strip", !.distinfo_dir = d]]
        /\ UNCHANGED << fs, cfgfiles, trees, cache, reads, first, calls >>

\* A local tag in the directory's name is stripped.
mv_strip(r) ==
    LET s == run[r]
        d == s.distinfo_dir
        new_dir_name == StripLocalTagDot(d)
        dirs == trees[s.tree].dirs
    IN  /\ s.pc = "mv_strip"
        /\ IF new_dir_name = d
           THEN /\ run' = [run EXCEPT ![r].pc = "mv_descriptor"]
                /\ UNCHANGED trees
           ELSE IF new_dir_name \in DOMAIN dirs
           THEN /\ run' = [run EXCEPT ![r] = Raise(s, Error("OSError", "mv_strip"))]
                /\ UNCHANGED trees
           ELSE /\ trees' = [trees EXCEPT ![s.tree].dirs = RenameDir(dirs, d, new_dir_name)]
                /\ run' = [run EXCEPT ![r] =
                      Did([s EXCEPT !.pc = "mv_descriptor", !.distinfo_dir = new_dir_name],
                          "rename dist-info")]
        /\ UNCHANGED << fs, cfgfiles, cache, reads, first, calls >>

\* The descriptor file is opened and written; when the encoder refuses the
\* descriptor the file stays empty.  Then repack_variant is called.
mv_descriptor(r) ==
    LET s == run[r]
        d == s.distinfo_dir
    IN  /\ s.pc = "mv_descriptor"
        /\ \/ /\ trees' = [trees EXCEPT ![s.tree].dirs[d].variant = << >>]
              /\ run' = [run EXCEPT ![r] =
                    Raise(Did(s, "write descriptor"), Error("ValidationError", "mv_descriptor"))]
           \/ /\ trees' = [trees EXCEPT ![s.tree].dirs[d].variant = s.variant_label]
              /\ run' = [run EXCEPT ![r] =
                    Did([s EXCEPT !.pc = "rv_check", !.rvRet = "mv_pack",
                                  !.args.metadata_f = d,
                                  !.pre = NamesAgree(trees[s.tree])],
                        "write descriptor")]
        /\ UNCHANGED << fs, cfgfiles, cache, reads, first, calls >>

\* wheel_pack with the output directory as its destination.
mv_pack_into_output(r) ==
    LET s == run[r]
        tree == trees[s.tree]
        o == s.args.output_directory
        packable == { d \in DOMAIN tree.dirs : IsPackable(d) }
    IN  /\ s.pc = "mv_pack"
        /\ \/ /\ run' = [run EXCEPT ![r] = Raise(s, Error("WheelError", "mv_pack"))]
              /\ UNCHANGED << fs, trees >>
           \/ /\ Cardinality(packable) = 1
              /\ \E d \in packable :
                    /\ trees' = [trees EXCEPT ![s.tree].whls =
                                    PackedName(d) :> Archive(tree.dirs)]
                    /\ fs' = [fs EXCEPT ![o] = PackedName(d) :> Archive(tree.dirs) @@ @]
                    /\ run' = [run EXCEPT ![r] =
                          Did([s EXCEPT !.pc = "mv_final", !.tmp_whl = PackedName(d)],
                              "pack")]
        /\ UNCHANGED << cfgfiles, cache, reads, first, calls >>

\* wheel_pack: the tree becomes an archive in the scratch directory, named
\* after its one dist-info directory, or the tree is refused.
mv_pack(r) ==
    LET s == run[r]
        tree == trees[s.tree]
        packable == { d \in DOMAIN tree.dirs : IsPackable(d) }
    IN  /\ s.pc = "mv_pack"
        /\ \/ /\ run' = [run EXCEPT ![r] = Raise(s, Error("WheelError", "mv_pack"))]
              /\ UNCHANGED trees
           \/ /\ Cardinality(packable) = 1
              /\ \E d \in packable :
                    /\ trees' = [trees EXCEPT ![s.tree].whls =
                                    PackedName(d) :> Archive(tree.dirs)]
                    /\ run' = [run EXCEPT ![r] =
                          Did([s EXCEPT !.pc = "mv_final", !.tmp_whl = PackedName(d)],
                              "pack")]
        /\ UNCHANGED << fs, cfgfiles, cache, reads, first, calls >>

\* The packed name is validated and the final name computed.
mv_final(r) ==
    LET s == run[r]
        base == BaseWheelName(s.tmp_whl)
    IN  /\ s.pc = "mv_final"
        /\ run' = [run EXCEPT ![r] =
              IF base = NoStr THEN Raise(s, Error("ValueError", "mv_final"))
              ELSE [s EXCEPT !.pc = "mv_move", !.output = FinalName(base, s.variant_label)]]
        /\ UNCHANGED << fs, cfgfiles, trees, cache, reads, first, calls >>

\* shutil.move: the archive leaves the scratch directory for the output
\* directory, replacing a file of its name.
mv_move(r) ==
    LET s == run[r]
        o == s.args.output_directory
        content == trees[s.tree].whls[s.tmp_whl]
    IN  /\ s.pc = "mv_move"
        /\ fs' = [fs EXCEPT ![o] =
                    [n \in DOMAIN fs[o] \cup { s.output } |->
                        IF n = s.output THEN content ELSE fs[o][n]]]
        /\ trees' = [trees EXCEPT ![s.tree].whls = << >>]
        /\ run' = [run EXCEPT ![r] = Did([s EXCEPT !.pc = "mv_cleanup"], "move")]
        /\ UNCHANGED << cfgfiles, cache, reads, first, calls >>

\* The with block is left: the scratch directory is removed, and the call
\* returns or the exception goes on to the caller.
mv_cleanup(r) ==
    LET s == run[r]
    IN  /\ s.pc = "mv_cleanup"
        /\ trees' = [id \in DOMAIN trees \ { s.scratch } |-> trees[id]]
        /\ run' = [run EXCEPT ![r] =
              Did([s EXCEPT !.pc = IF s.err = NoErr THEN "done" ELSE "failed",
                            !.inWith = FALSE], "rmtree")]
        /\ UNCHANGED << fs, cfgfiles, cache, reads, first, calls >>

\* The steps of a call, whatever started it.
Step(r) ==
    \/ rc_lookup(r)
    \/ rc_compute(r)
    \/ mv_validate(r)
    \/ mv_label(r)
    \/ mv_mkdtemp(r)
    \/ mv_unpack(r)
    \/ mv_find(r)
    \/ mv_strip(r)
    \/ mv_descriptor(r)
    \/ rv_check(r)
    \/ rv_parse(r)
    \/ rv_rename(r)
    \/ rv_version(r)
    \/ rv_deps(r)
    \/ rv_write(r)
    \/ mv_pack(r)
    \/ mv_final(r)
    \/ mv_move(r)
    \/ mv_cleanup(r)

(***************************************************************************)
(* The helpers, called on their own                                        *)
(***************************************************************************)

\* The symbols of the strings given to the helpers: the separator, a digit,
\* a dot, the plus of a local tag and a symbol outside the tag class.
Symbols == { "+", "-", ".", "1", "!" }

\* The strings of at most n symbols.
Strings(n) == UNION { [1..k -> Symbols] : k \in 0..n }

\* A caller calls sanitize_wheel_filename.
StartSanitize(r) ==
    /\ run[r].pc = "idle"
    /\ \E f \in Strings(MaxLen) :
          run' = [run EXCEPT ![r] =
                    [IdleRun EXCEPT !.pc = "sanitize", !.entry = "sanitize_wheel_filename",
                                    !.args.filename = f]]
    /\ calls' = calls + 1
    /\ UNCHANGED << fs, cfgfiles, trees, cache, reads, first >>

\* The call: the name is returned, or ValueError raised.
sanitize(r) ==
    LET s == run[r]
        name == sanitize_wheel_filename(IF s.hist = << >> THEN s.args.filename ELSE s.output)
    IN  /\ s.pc = "sanitize"
        /\ run' = [run EXCEPT ![r] =
              IF name = NoStr THEN Raise(s, Error("ValueError", "sanitize_wheel_filename"))
              ELSE [s EXCEPT !.pc = "done", !.output = name, !.hist = @ \o << name >>]]
        /\ UNCHANGED << fs, cfgfiles, trees, cache, reads, first, calls >>

\* The caller calls sanitize_wheel_filename on the name it got.
SanitizeAgain(r) ==
    LET s == run[r]
    IN  /\ s.pc = "done"
        /\ s.entry = "sanitize_wheel_filename"
        /\ Len(s.hist) = 1
        /\ run' = [run EXCEPT ![r].pc = "sanitize"]
        /\ UNCHANGED << fs, cfgfiles, trees, cache, reads, first, calls >>

\* A caller calls replace_from_end.
StartReplace(r) ==
    /\ run[r].pc = "idle"
    /\ \E s \in Strings(MaxStr), old \in Strings(MaxSuffix), new \in { << >>, << "1" >> } :
          run' = [run EXCEPT ![r] =
                    [IdleRun EXCEPT !.pc = "replace", !.entry = "replace_from_end",
                                    !.args.s = s, !.args.old = old, !.args.new = new]]
    /\ calls' = calls + 1
    /\ UNCHANGED << fs, cfgfiles, trees, cache, reads, first >>

\* The call.
replace(r) ==
    LET s == run[r]
    IN  /\ s.pc = "replace"
        /\ run' = [run EXCEPT ![r] =
              [s EXCEPT !.pc = "done",
                        !.output = replace_from_end(s.args.s, s.args.old, s.args.new)]]
        /\ UNCHANGED << fs, cfgfiles, trees, cache, reads, first, calls >>

InitCommon ==
    /\ fs = [d \in Dirs |-> << >>]
    /\ trees = << >>
    /\ cache = << >>
    /\ reads = [k \in Keys |-> 0]
    /\ first = [k \in Keys |-> NoCfg]
    /\ calls = 0
    /\ run = [r \in Runs |-> IdleRun]

\* The process calls the resolver, one call after the other; the file has
\* both tables, one of them or none.
InitConfig ==
    /\ InitCommon
    /\ \E tables \in SUBSET { "metadata_configs", "variant_configs" } :
          cfgfiles = (ConfigPath :> WithoutTables(ConfigToml, tables))

NextConfig ==
    \/ StartResolve(1)
    \/ rc_lookup(1)
    \/ rc_compute(1)

SpecConfig == InitConfig /\ [][NextConfig]_vars

\* Several threads of one process call the resolver on one file, their
\* lookups and computations interleaved.
InitCallers ==
    /\ InitCommon
    /\ cfgfiles = (ConfigPath :> ConfigToml)

NextCallers ==
    \E r \in Runs :
        \/ StartCaller(r)
        \/ rc_lookup(r)
        \/ rc_compute(r)

SpecCallers == InitCallers /\ [][NextCallers]_vars

\* The records and profiles of the direct calls of the rewriter.
RewriterNames ==
    { << "bar" >>, << "pkg", "_", "cpu", "-", "cu126" >>,
      << "pkg", "_", "cpu", "-", "cpu" >>, << "pkg", "-", "cu126", "-", "cpu" >> }
RewriterVersions == { NoStr, V100, V100 \o Cu126 }
DepUniverse == { DepOldThing, DepKeep }
DepLists == UNION { [1..n -> DepUniverse] : n \in 0..MaxDeps }
RemoveLists == { << >>, << DepOld >> }
AddLists == { << >>, << DepNew >>, << DepKeep >> }
RenameTargets == { NoStr, << >>, << "foo" >>, << "foo", "-", "cpu" >> }

\* The process calls the rewriter on a working directory whose dist-info
\* directory is named after its record.
InitRewriter ==
    /\ fs = [d \in Dirs |-> << >>]
    /\ cache = << >>
    /\ reads = [k \in Keys |-> 0]
    /\ first = [k \in Keys |-> NoCfg]
    /\ calls = 0
    /\ run = [r \in Runs |-> IdleRun]
    /\ \E name \in RewriterNames, version \in RewriterVersions, deps \in DepLists :
          trees = (0 :> Tree(NoStr,
                       (Replace(name, "-", "_") \o << "-" >> \o V100 \o DistInfoSuffix)
                           :> DirContent(Record(name, version, deps), NoStr),
                       << >>))
    /\ \E rename \in RenameTargets, normName \in BOOLEAN, normVersion \in BOOLEAN,
          remove \in RemoveLists, add \in AddLists :
          cfgfiles = (ConfigPath :>
                        [metadata_configs |->
                            [default |-> MetadataProfile(rename, normName, normVersion,
                                                         remove, add)]])

NextRewriter ==
    \/ StartRewrite(1)
    \/ rv_check(1)
    \/ rc_lookup(1)
    \/ rc_compute(1)
    \/ rv_parse(1)
    \/ rv_rename(1)
    \/ rv_version(1)
    \/ rv_deps(1)
    \/ rv_write(1)

SpecRewriter == InitRewriter /\ [][NextRewriter]_vars

\* One run of make_variant on a file of the input directory (or on a name no
\* file has), into the input directory, another directory or none.
Init ==
    /\ fs = InitialFs
    /\ cfgfiles = (ConfigPath :> ConfigToml)
    /\ trees = << >>
    /\ cache = << >>
    /\ reads = [k \in Keys |-> 0]
    /\ first = [k \in Keys |-> NoCfg]
    /\ calls = 0
    /\ run = [r \in Runs |-> IdleRun]

Next ==
    \/ StartMake(1, DOMAIN InitialFs["d1"] \cup { MissingFileName },
                 Dirs \cup { NoDir }, MetadataNames, VariantNames, Paths)
    \/ Step(1)

Spec == Init /\ [][Next]_vars

\* The runs of make_variant of all threads, on one archive.
NextRuns ==
    \E r \in Runs :
        \/ StartMake(r, { ArchiveFileName(<< << "pkg" >>, Cu126, << >>, "ok" >>) },
                     { "d2" }, { "renver" }, { "myv" }, { ConfigPath })
        \/ Step(r)

SpecRuns == Init /\ [][NextRuns]_vars

\* One caller of the helpers, with no file and no configuration in play.
InitHelpers ==
    /\ fs = [d \in Dirs |-> << >>]
    /\ cfgfiles = << >>
    /\ trees = << >>
    /\ cache = << >>
    /\ reads = << >>
    /\ first = << >>
    /\ calls = 0
    /\ run = [r \in Runs |-> IdleRun]

NextHelpers ==
    \/ StartSanitize(1)
    \/ sanitize(1)
    \/ SanitizeAgain(1)
    \/ StartReplace(1)
    \/ replace(1)

SpecHelpers == InitHelpers /\ [][NextHelpers]_vars

(***************************************************************************)
(* Properties                                                              *)
(***************************************************************************)

Range(xs) == { xs[i] : i \in 1..Len(xs) }
Count(v, xs) == Cardinality({ i \in 1..Len(xs) : xs[i] = v })
IsSorted(xs) == \A i \in 1..(Len(xs) - 1) : ~StrLess(xs[i + 1], xs[i])
Survives(dep, remove) == \A i \in 1..Len(remove) : ~StartsWith(dep, remove[i])

EndedIn(r, entry) == run[r].entry = entry /\ Ended(r)

\* C2: whenever a call of repack_variant that started with every dist-info
\* directory named after its record's Name ('-' replaced by '_') has ended,
\* by returning or by raising, every dist-info directory is still named after
\* the Name of the record on disk.
C2_DirectoryNamedAfterRecord ==
    \A r \in Runs :
        (EndedIn(r, "repack_variant") /\ run[r].pre) => NamesAgree(trees[run[r].tree])

\* C3: the configuration file is loaded at most once for any one
\* (path, metadata name, variant name) triple, and every call that returns
\* returns what the first call with its triple returned.
C3_NeverReadAgain ==
    /\ \A k \in Keys : reads[k] <= 1
    /\ \A r \in Runs :
          (run[r].entry = "read_configuration" /\ run[r].pc = "done")
              => run[r].cfg = first[Key(run[r])]

\* C5: when repack_variant has returned, the Requires-Dist values of the
\* record on disk are sorted and hold every value x as often as x is among
\* the original values that start with no string of deps_remove_list plus as
\* often as x is in deps_add_list (duplicates stay); for remove ["old"], add
\* ["new"] and the original ["old-thing", "keep"] they are ["keep", "new"].
C5_DependenciesRewritten ==
    \A r \in Runs :
        (run[r].entry = "repack_variant" /\ run[r].pc = "done") =>
            LET s == run[r]
                D == s.parsed.deps
                R == Get(s.cfg[1], "deps_remove_list", << >>)
                A == Get(s.cfg[1], "deps_add_list", << >>)
                out == trees[s.tree].dirs[s.dist_info_dir].METADATA.deps
            IN  /\ IsSorted(out)
                /\ \A v \in Range(D) \cup Range(A) \cup Range(out) :
                      Count(v, out) = (IF Survives(v, R) THEN Count(v, D) ELSE 0) + Count(v, A)
                /\ (R = << DepOld >> /\ A = << DepNew >> /\ D = << DepOldThing, DepKeep >>)
                      => out = << DepKeep, DepNew >>

\* C5, its case: a call has returned that dropped "old-thing", kept "keep" and
\* added "keep" again, so that "keep" is there twice.
C5_Witness ==
    \E r \in Runs :
        /\ run[r].entry = "repack_variant" /\ run[r].pc = "done"
        /\ run[r].parsed.deps = << DepOldThing, DepKeep >>
        /\ Get(run[r].cfg[1], "deps_remove_list", << >>) = << DepOld >>
        /\ trees[run[r].tree].dirs[run[r].dist_info_dir].METADATA.deps = << DepKeep, DepKeep >>

\* The tables of the file a call of read_configuration was given, and whether
\* the call asked for a profile that its table does not have.
TableOf(s, table) == Get(cfgfiles[s.args.config_toml_filepath], table, << >>)
MetadataMissing(s) ==
    /\ s.args.metadata_config_name # None
    /\ s.args.metadata_config_name \notin DOMAIN TableOf(s, "metadata_configs")
VariantMissing(s) ==
    /\ s.args.variant_config_name # None
    /\ s.args.variant_config_name \notin DOMAIN TableOf(s, "variant_configs")
FailedWith(s, e) == s.pc = "failed" /\ s.err = e /\ s.cfg = NoCfg

Made(r) == run[r].entry = "make_variant"

\* The profile of a name in a table of the configuration, empty for no name.
ProfileOf(table, name) == IF name = None THEN << >> ELSE ConfigToml[table][name]

\* The label make_variant is to use for a variant profile name.
ExpectedLabel(name) ==
    LET profile == ProfileOf("variant_configs", name)
    IN  IF "variant_label" \in DOMAIN profile THEN profile["variant_label"]
        ELSE IF "properties" \in DOMAIN profile THEN Digest(profile["properties"])
        ELSE Digest(<< >>)

\* The published name worked out from the arguments alone: the source
\* archive's dist-info directory and record, the metadata profile, the label.
ExpectedPublishedName(args) ==
    LET dirs == InitialFs[args.input_dir][args.input_name].dirs
        d == CHOOSE d \in DOMAIN dirs : TRUE
        profile == ProfileOf("metadata_configs", args.metadata_config_name)
        new == NewPackageName(profile, dirs[d].METADATA)
        name == IF new = NoStr THEN NameComponent(d) ELSE Replace(new, "-", "_")
        namever == SubSeq(d, 1, Len(d) - Len(DistInfoSuffix))
        version == Split(Split1(namever, "-")[2], "+")[1]
    IN  name \o << "-" >> \o version \o << "-" >> \o Tagline \o << "-" >>
            \o ExpectedLabel(args.variant_config_name) \o WhlSuffix

C4_Archive == << "pkg", "-" >> \o V100 \o Cu126 \o << "-" >> \o Tagline \o WhlSuffix
C4_Name == << "pkg", "-" >> \o V100 \o << "-" >> \o Tagline \o << "-", "v1" >> \o WhlSuffix

\* C1, as claimed: in every run of make_variant the move into the output
\* directory is the last filesystem action and the only one that touches the
\* output directory, and a run that fails leaves the output directory as it
\* was.
C1_MoveIsLastAction ==
    \A r \in Runs : Made(r) =>
        LET s == run[r]
        IN  /\ Count("move", s.hist) = 0 => fs = InitialFs
            /\ s.pc = "failed" => fs = InitialFs
            /\ s.pc = "done" => s.hist[Len(s.hist)] = "move"

\* C1, amended: the move is the only filesystem action outside the run's
\* scratch directory and the last one but for the removal of the scratch
\* directory; until the move, and in every failed run, the directories hold
\* exactly what they held before the run.
C1_MoveIsOnlyPublication ==
    \A r \in Runs : Made(r) =>
        LET s == run[r]
            n == Len(s.hist)
        IN  /\ Count("move", s.hist) = 0 => fs = InitialFs
            /\ s.pc = "failed" => fs = InitialFs /\ Count("move", s.hist) = 0
            /\ s.pc = "done" =>
                  /\ n >= 2
                  /\ s.hist[n - 1] = "move"
                  /\ s.hist[n] = "rmtree"
                  /\ Count("move", s.hist) = 1
                  /\ \A d \in Dirs \ { s.args.output_directory } : fs[d] = InitialFs[d]

\* C1's case: a run that failed in the metadata rewrite after it had renamed
\* the dist-info directory and written the descriptor.
C1_Witness ==
    \E r \in Runs :
        /\ Made(r)
        /\ run[r].pc = "failed"
        /\ run[r].err.at = "rv_version"
        /\ Count("rename dist-info", run[r].hist) >= 1
        /\ Count("write descriptor", run[r].hist) = 1

\* C4, as claimed: the published name is the sanitized "{base}-{label}.whl",
\* has no local tag in its version, is a function of the archive, the
\* configuration and the profile names, and for the archive
\* pkg-1.0.0+cu126-py3-none-any.whl with label v1 it is
\* pkg-1.0.0-py3-none-any-v1.whl.
C4_ExampleUnderEveryProfile ==
    \A r \in Runs : Made(r) /\ run[r].pc = "done" =>
        LET s == run[r]
        IN  s.args.input_name = C4_Archive /\ s.variant_label = << "v1" >>
                => s.output = C4_Name

\* C4, amended: as claimed, the example holding when the metadata profile
\* has no rename_package_to.
C4_PublishedName ==
    \A r \in Runs : Made(r) /\ run[r].pc = "done" =>
        LET s == run[r]
            a == s.args
            base == SubSeq(s.tmp_whl, 1, Len(s.tmp_whl) - Len(WhlSuffix))
            profile == ProfileOf("metadata_configs", a.metadata_config_name)
        IN  /\ s.output \in DOMAIN fs[a.output_directory]
            /\ s.output =
                 sanitize_wheel_filename(base \o << "-" >> \o s.variant_label \o WhlSuffix)
            /\ s.variant_label = ExpectedLabel(a.variant_config_name)
            /\ "+" \notin Range(Split(s.output, "-")[2])
            /\ s.output = ExpectedPublishedName(a)
            /\ ( /\ a.input_name = C4_Archive
                 /\ s.variant_label = << "v1" >>
                 /\ "rename_package_to" \notin DOMAIN profile )
                    => s.output = C4_Name

\* C4's case: the example archive published with label v1 under the
\* normalizing profile that matches no suffix.
C4_Witness ==
    \E r \in Runs :
        /\ Made(r)
        /\ run[r].pc = "done"
        /\ run[r].args.input_name = C4_Archive
        /\ run[r].args.metadata_config_name = "default"
        /\ run[r].args.variant_config_name = "myv"
        /\ C4_Name \in DOMAIN fs[run[r].args.output_directory]

\* C6: a run of make_variant that acquired a scratch directory has released
\* it when the run has ended, in success or failure, and no two runs have the
\* same scratch directory.
C6_ScratchReleased ==
    /\ \A r \in Runs : Made(r) /\ Ended(r) /\ run[r].scratch # 0 =>
            /\ run[r].scratch \notin DOMAIN trees
            /\ run[r].hist[Len(run[r].hist)] = "rmtree"
    /\ \A r, q \in Runs : r # q /\ run[r].scratch # 0 => run[r].scratch # run[q].scratch
    /\ \A id \in DOMAIN trees : \E r \in Runs : run[r].scratch = id /\ ~Ended(r)

\* C6's case: two runs had a scratch directory each, one published and one
\* failed after unpacking, and no scratch directory is left.
C6_Witness ==
    \E r, q \in Runs :
        /\ Made(r) /\ run[r].pc = "done" /\ run[r].scratch # 0
        /\ Made(q) /\ run[q].pc = "failed" /\ run[q].scratch # 0
        /\ Count("unpack", run[q].hist) = 1
        /\ trees = << >>

C9_InputNeverModified ==
    \A r \in Runs : Made(r) =>
        LET a == run[r].args
        IN  a.input_name \in DOMAIN InitialFs[a.input_dir] =>
                /\ a.input_name \in DOMAIN fs[a.input_dir]
                /\ fs[a.input_dir][a.input_name] = InitialFs[a.input_dir][a.input_name]

\* C10: the label is the profile's variant_label, else the digest of its
\* properties (of no properties without a profile); an invalid label ends the
\* run with a Naming Error before a scratch directory exists or anything is
\* written.
C10_LabelChosenAndValidated ==
    \A r \in Runs : Made(r) =>
        LET s == run[r]
            label == ExpectedLabel(s.args.variant_config_name)
        IN  /\ s.variant_label # NoStr => s.variant_label = label
            /\ s.pc \notin { "idle", "mv_validate", "rc_lookup", "rc_compute", "mv_label" }
               /\ s.err.at \notin { "mv_validate", "read_configuration" }
                  => s.variant_label = label
            /\ s.scratch # 0 => ValidVariantLabel(label)
            /\ s.err.at = "mv_label" =>
                  /\ ~ValidVariantLabel(label)
                  /\ s.pc = "failed"
                  /\ s.err.kind = "ValueError"
                  /\ s.scratch = 0 /\ trees = << >> /\ s.hist = << >>
                  /\ fs = InitialFs
            /\ s.cfg # NoCfg /\ ~ValidVariantLabel(label) /\ s.pc # "mv_label"
                  => s.err.at = "mv_label"

\* C10's case: the profile with the label V1: the run ended with the Naming
\* Error.
C10_Witness ==
    \E r \in Runs :
        /\ Made(r)
        /\ run[r].pc = "failed"
        /\ run[r].args.variant_config_name = "bad"
        /\ run[r].err.at = "mv_label"

\* C10's other case: a profile without a label: the digest is the label of
\* the published archive.
C10_DigestWitness ==
    \E r \in Runs :
        /\ Made(r)
        /\ run[r].pc = "done"
        /\ run[r].args.variant_config_name = "auto"
        /\ run[r].variant_label = << "h1" >>

(***************************************************************************)
(* The helpers: the claims                                                 *)
(***************************************************************************)

Sanitized(r) == run[r].entry = "sanitize_wheel_filename" /\ Ended(r)

\* C11: sanitize_wheel_filename applied to its own result returns that
\* result, for every file name of at least 2 segments.
C11_SanitizeIdempotent ==
    \A r \in Runs : Sanitized(r) =>
        LET s == run[r]
        IN  /\ Len(s.hist) >= 1 => s.pc = "done"
            /\ Len(s.hist) = 2 => s.hist[2] = s.hist[1]

\* C11's case: the version +1+. with two tags, sanitized twice: the first
\* call changed it.
C11_Witness ==
    \E r \in Runs :
        /\ Sanitized(r)
        /\ run[r].args.filename = << "1", "-", "+", "1", "+", "." >>
        /\ run[r].hist = << << "1", "-" >>, << "1", "-" >> >>

\* A first call of sanitize_wheel_filename has ended.
SanitizedOnce(r) == Sanitized(r) /\ Len(run[r].hist) <= 1

\* Position k of a segment lies in a local tag: a "+" that a tag character
\* follows, or the run of tag characters after such a "+".
InLocalTag(seg, k) ==
    \E i \in 1..k :
        /\ seg[i] = "+"
        /\ i < Len(seg)
        /\ \A j \in (i + 1)..(IF k = i THEN i + 1 ELSE k) : IsTagChar(seg[j])

\* out is seg without the positions that lie in a local tag.
IsWithoutLocalTags(out, seg) ==
    LET kept == { k \in 1..Len(seg) : ~InLocalTag(seg, k) }
    IN  /\ Len(out) = Cardinality(kept)
        /\ \A k \in kept : out[Cardinality({ m \in kept : m <= k })] = seg[k]

\* Segment seg ends in "+<tag>" from position k on.
IsTagSuffixAt(seg, k) ==
    seg[k] = "+" /\ k < Len(seg) /\ \A j \in (k + 1)..Len(seg) : IsTagChar(seg[j])

\* seg without its "+<tag>" suffix, seg itself when it has none.
WithoutTagSuffix(seg) ==
    IF \E k \in 1..Len(seg) : IsTagSuffixAt(seg, k)
    THEN SubSeq(seg, 1, (CHOOSE k \in 1..Len(seg) : IsTagSuffixAt(seg, k)) - 1)
    ELSE seg

\* C12, as claimed: a name of fewer than 2 segments is refused with a Naming
\* Error; of every other name the segments are rejoined, segment 1 without
\* its "+<tag>" suffix and the others unchanged; a name without "+" in
\* segment 1 is returned unchanged.
C12_TagSuffixRemoved ==
    \A r \in Runs : SanitizedOnce(r) =>
        LET s == run[r]
            f == s.args.filename
            segs == Split(f, "-")
            out == Split(s.output, "-")
        IN  /\ Count("-", f) = 0 => s.pc = "failed" /\ s.err.kind = "ValueError"
            /\ Count("-", f) >= 1 =>
                  /\ s.pc = "done"
                  /\ Len(out) = Len(segs)
                  /\ \A i \in 1..Len(segs) : i # 2 => out[i] = segs[i]
                  /\ out[2] = WithoutTagSuffix(segs[2])
                  /\ Count("+", segs[2]) = 0 => s.output = f

\* C12, amended: segment 1 is returned without every "+<tag>" it contains,
\* wherever it stands; that is its "+<tag>" suffix when the segment has one
\* "+" and ends in the tag.
C12_EveryTagRemoved ==
    \A r \in Runs : SanitizedOnce(r) =>
        LET s == run[r]
            f == s.args.filename
            segs == Split(f, "-")
            out == Split(s.output, "-")
        IN  /\ Count("-", f) = 0 => s.pc = "failed" /\ s.err.kind = "ValueError"
            /\ Count("-", f) >= 1 =>
                  /\ s.pc = "done"
                  /\ Len(out) = Len(segs)
                  /\ \A i \in 1..Len(segs) : i # 2 => out[i] = segs[i]
                  /\ IsWithoutLocalTags(out[2], segs[2])
                  /\ ( /\ Count("+", segs[2]) = 1
                       /\ \E k \in 1..Len(segs[2]) : IsTagSuffixAt(segs[2], k) )
                        => out[2] = WithoutTagSuffix(segs[2])
                  /\ Count("+", segs[2]) = 0 => s.output = f

\* C12's case: the name +-1+1!-+1: the tag of segment 1 is no suffix and is
\* removed, the "+" and the tag of the other segments stay.
C12_Witness ==
    \E r \in Runs :
        /\ SanitizedOnce(r)
        /\ run[r].args.filename = << "+", "-", "1", "+", "1", "!" >>
        /\ run[r].output = << "+", "-", "1", "!" >>

\* A call replace_from_end(s, old, "") with a non-empty old has returned.
Replaced(r) ==
    /\ run[r].entry = "replace_from_end"
    /\ run[r].pc = "done"
    /\ run[r].args.old # << >>
    /\ run[r].args.new = << >>

\* C13: replace_from_end(s, suf, "") with a non-empty suf returns s when s
\* does not end with suf, and s without its last len(suf) characters when it
\* does.
C13_SuffixStripped ==
    \A r \in Runs : Replaced(r) =>
        LET a == run[r].args
            out == run[r].output
        IN  IF \E n \in 0..Len(a.s) : SubSeq(a.s, 1, n) \o a.old = a.s
            THEN /\ Len(out) = Len(a.s) - Len(a.old)
                 /\ out \o a.old = a.s
            ELSE out = a.s

\* C13's case: the suffix -. stands twice in -.-. and is removed once, from
\* the end.
C13_Witness ==
    \E r \in Runs :
        /\ Replaced(r)
        /\ run[r].args.s = << "-", ".", "-", "." >>
        /\ run[r].args.old = << "-", "." >>
        /\ run[r].output = << "-", "." >>

\* C13's other case: the suffix stands in the string but not at its end.
C13_MiddleWitness ==
    \E r \in Runs :
        /\ Replaced(r)
        /\ run[r].args.s = << "1", "-", ".", "1" >>
        /\ run[r].args.old = << "-", "." >>
        /\ run[r].output = run[r].args.s

(***************************************************************************)
(* read_configuration: more claims                                         *)
(***************************************************************************)

\* C14: a call of read_configuration with None for a profile name returns
\* the empty mapping for that profile and never fails for it, whether the
\* file has that profile's table or not; the other profile is found or
\* reported missing by its own table alone.
C14_NoneGivesEmpty ==
    \A r \in Runs : EndedIn(r, "read_configuration") =>
        LET s == run[r]
            m == s.args.metadata_config_name
            v == s.args.variant_config_name
            isFile == s.args.config_toml_filepath \in DOMAIN cfgfiles
        IN  /\ ~isFile => s.pc = "failed" /\ s.err.kind = "FileNotFoundError"
            /\ (isFile /\ m = None) =>
                  /\ s.err.table # "metadata_configs"
                  /\ s.pc = "failed" <=> VariantMissing(s)
                  /\ s.pc = "done" =>
                        /\ s.cfg[1] = << >>
                        /\ v # None => s.cfg[2] = TableOf(s, "variant_configs")[v]
            /\ (isFile /\ v = None) =>
                  /\ s.err.table # "variant_configs"
                  /\ s.pc = "failed" <=> MetadataMissing(s)
                  /\ s.pc = "done" =>
                        /\ s.cfg[2] = << >>
                        /\ m # None => s.cfg[1] = TableOf(s, "metadata_configs")[m]

\* C14's case: no metadata profile name and a file without the table
\* metadata_configs: the variant profile is returned with an empty mapping.
C14_Witness ==
    \E r \in Runs :
        /\ EndedIn(r, "read_configuration")
        /\ run[r].pc = "done"
        /\ run[r].args.metadata_config_name = None
        /\ run[r].args.variant_config_name = "myv"
        /\ "metadata_configs" \notin DOMAIN cfgfiles[run[r].args.config_toml_filepath]
        /\ run[r].cfg = << << >>, ConfigToml.variant_configs.myv >>

(***************************************************************************)
(* repack_variant: more claims                                             *)
(***************************************************************************)

\* A call of repack_variant is past the renaming and its profile asked for
\* the normalization of the name only.
Normalized(r) ==
    /\ run[r].entry = "repack_variant"
    /\ run[r].dist_info_dir # NoStr
    /\ "rename_package_to" \notin DOMAIN run[r].cfg[1]
    /\ Get(run[r].cfg[1], "normalize_package_name", FALSE)

PatternIndex(pattern) ==
    CHOOSE i \in 1..Len(normalize_patterns) : normalize_patterns[i] = pattern

\* The place of a suffix in the order the loop tries them: the patterns in
\* list order, of one pattern the "-" form before the "_" form.
TryOrder(suffix) == 2 * PatternIndex(suffix[2]) - (IF suffix[1] = "-" THEN 1 ELSE 0)

\* The j-th suffix of a name from its end, one separator and one pattern.
SuffixFromEnd(name, j) == SubSeq(name, Len(name) - 2 * j + 1, Len(name) - 2 * j + 2)

IsSuffix(suffix) ==
    suffix[1] \in { "-", "_" } /\ suffix[2] \in Range(normalize_patterns)

\* The name before and after the normalization, and the number of suffixes
\* that were stripped.
C15_Before(r) == run[r].parsed.Name
C15_After(r) == run[r].metadata.Name
C15_Stripped(r) == (Len(C15_Before(r)) - Len(C15_After(r))) \div 2

C15_TwiceWitness ==
    \E r \in Runs :
        /\ Normalized(r)
        /\ C15_Before(r) = << "pkg", "_", "cpu", "-", "cpu" >>
        /\ C15_After(r) = << "pkg" >>

C15_OrderWitness ==
    \E r \in Runs :
        /\ Normalized(r)
        /\ C15_Before(r) = << "pkg", "-", "cu126", "-", "cpu" >>
        /\ C15_After(r) = << "pkg", "-", "cu126" >>

(***************************************************************************)
(* make_variant: more claims                                               *)
(***************************************************************************)

\* The version component of a dist-info directory name.
VersionComponent(d) == Split1(SubSeq(d, 1, Len(d) - Len(DistInfoSuffix)), "-")[2]

\* The dist-info directories of an archive, and whether each is named after
\* the Version of its record.
DistInfoDirs(archive) == { d \in DOMAIN archive.dirs : EndsWith(d, DistInfoSuffix) }
VersionsAgree(archive) ==
    \A d \in DistInfoDirs(archive) :
        /\ archive.dirs[d].METADATA.present
        /\ archive.dirs[d].METADATA.Version = VersionComponent(d)

\* The archive a run of make_variant was given, and the one it published.
SourceArchive(r) == InitialFs[run[r].args.input_dir][run[r].args.input_name]
PublishedArchive(r) == fs[run[r].args.output_directory][run[r].output]

\* C16, as claimed: after a successful run of make_variant on an archive
\* whose dist-info directory is named after its record's Version, local tag
\* or not, the dist-info directory of the published archive is named after
\* the Version of the record in it, whatever the metadata profile.
C16_VersionAgrees ==
    \A r \in Runs :
        (Made(r) /\ run[r].pc = "done" /\ VersionsAgree(SourceArchive(r)))
            => VersionsAgree(PublishedArchive(r))

\* The steps of repack_variant that may follow one another.
C17_Order ==
    { << "idle", "rv_check" >>,
      << "rv_check", "rc_lookup" >>, << "rv_check", "failed" >>,
      << "rc_lookup", "rc_compute" >>, << "rc_lookup", "rv_parse" >>,
      << "rc_compute", "rv_parse" >>, << "rc_compute", "failed" >>,
      << "rv_parse", "rv_rename" >>,
      << "rv_rename", "rv_version" >>, << "rv_rename", "failed" >>,
      << "rv_version", "rv_deps" >>, << "rv_version", "failed" >>,
      << "rv_deps", "rv_write" >>,
      << "rv_write", "done" >> }

\* The records in the directories of a tree.
RecordsOf(tree) == { tree.dirs[d].METADATA : d \in DOMAIN tree.dirs }

\* C17: a call of repack_variant goes through its steps in the order check,
\* resolve, parse, rename, Version, dependencies, write; the record file is
\* written once at most, by the last step, and until then, also when the
\* call has failed, the records hold what they held before the call.
C17_RecordWrittenLast ==
    /\ [](\A r \in Runs : run[r].entry = "repack_variant" =>
            /\ Count("write METADATA", run[r].hist) <= 1
            /\ Count("write METADATA", run[r].hist) = 1 <=> run[r].pc = "done"
            /\ run[r].pc \in { "rv_rename", "rv_version", "rv_deps", "rv_write", "failed" }
               /\ run[r].parsed.present
                  => RecordsOf(trees[run[r].tree]) = { run[r].parsed })
    /\ [][\A r \in Runs : run'[r].entry = "repack_variant" =>
            /\ run'[r].pc # run[r].pc => << run[r].pc, run'[r].pc >> \in C17_Order
            /\ RecordsOf(trees'[run'[r].tree]) # RecordsOf(trees[run'[r].tree])
                  => run[r].pc = "rv_write" /\ run'[r].pc = "done"]_vars

\* C17's case: the call failed in the Version step after the renaming: the
\* directory has its new name and the record its old content.
C17_Witness ==
    \E r \in Runs :
        /\ run[r].entry = "repack_variant"
        /\ run[r].pc = "failed"
        /\ run[r].err.at = "rv_version"
        /\ run[r].dist_info_dir # run[r].args.metadata_f
        /\ run[r].metadata.Name # run[r].parsed.Name
        /\ RecordsOf(trees[run[r].tree]) = { run[r].parsed }

\* A call of repack_variant is past the renaming.
Renamed(r) == run[r].entry = "repack_variant" /\ run[r].dist_info_dir # NoStr

\* C18, as claimed: with rename_package_to set the Name is that value, not
\* normalized, whatever normalize_package_name; with neither key set the
\* Name and the directory's name are as before the call.
C18_RenameToWhenSet ==
    \A r \in Runs : Renamed(r) =>
        LET s == run[r]
            profile == s.cfg[1]
        IN  /\ "rename_package_to" \in DOMAIN profile =>
                  s.metadata.Name = profile["rename_package_to"]
            /\ ( /\ "rename_package_to" \notin DOMAIN profile
                 /\ ~Get(profile, "normalize_package_name", FALSE) ) =>
                    /\ s.metadata.Name = s.parsed.Name
                    /\ s.dist_info_dir = s.args.metadata_f
                    /\ Count("rename dist-info", s.hist) = 0

\* C18, amended: with rename_package_to set to a non-empty value the Name is
\* that value; an empty rename_package_to counts as not set.
C18_RenameToWhenNotEmpty ==
    \A r \in Runs : Renamed(r) =>
        LET s == run[r]
            profile == s.cfg[1]
            isSet == "rename_package_to" \in DOMAIN profile
                        /\ profile["rename_package_to"] # << >>
        IN  /\ isSet =>
                  /\ s.metadata.Name = profile["rename_package_to"]
                  /\ s.pc = "done" =>
                        trees[s.tree].dirs[s.dist_info_dir].METADATA.Name
                            = profile["rename_package_to"]
            /\ (~isSet /\ ~Get(profile, "normalize_package_name", FALSE)) =>
                    /\ s.metadata.Name = s.parsed.Name
                    /\ s.dist_info_dir = s.args.metadata_f
                    /\ DOMAIN trees[s.tree].dirs = { s.args.metadata_f }
                    /\ Count("rename dist-info", s.hist) = 0
            /\ (~isSet /\ Get(profile, "normalize_package_name", FALSE)) =>
                    s.metadata.Name = NormalizeName(s.parsed.Name)

\* C18's case: rename_package_to = foo-cpu with normalize_package_name set:
\* the record of pkg_cpu-cu126 is written with the Name foo-cpu.
C18_Witness ==
    \E r \in Runs :
        /\ Renamed(r)
        /\ run[r].pc = "done"
        /\ Get(run[r].cfg[1], "rename_package_to", NoStr) = << "foo", "-", "cpu" >>
        /\ Get(run[r].cfg[1], "normalize_package_name", FALSE)
        /\ run[r].parsed.Name = << "pkg", "_", "cpu", "-", "cu126" >>
        /\ trees[run[r].tree].dirs[run[r].dist_info_dir].METADATA.Name
              = << "foo", "-", "cpu" >>

\* C19: the archive a successful run of make_variant published has exactly
\* one dist-info directory, which holds the descriptor the run wrote and the
\* record the rewriter wrote, also when the rewriter renamed the directory
\* after the descriptor was written; nothing is left under the old name.
C19_OneDistInfo ==
    \A r \in Runs : Made(r) /\ run[r].pc = "done" =>
        LET s == run[r]
            archive == PublishedArchive(r)
        IN  /\ DistInfoDirs(archive) = { s.dist_info_dir }
            /\ DOMAIN archive.dirs = { s.dist_info_dir }
            /\ archive.dirs[s.dist_info_dir].variant = s.variant_label
            /\ archive.dirs[s.dist_info_dir].METADATA = s.metadata
            /\ s.metadata.present
            /\ s.distinfo_dir # s.dist_info_dir => s.distinfo_dir \notin DOMAIN archive.dirs
            /\ Count("write descriptor", s.hist) = 1
            /\ Count("write METADATA", s.hist) = 1

\* C19's case: the rewriter renamed pkg-1.0.0.dist-info, which held the
\* descriptor, to foo-1.0.0.dist-info, and the archive was published.
C19_Witness ==
    \E r \in Runs :
        /\ Made(r)
        /\ run[r].pc = "done"
        /\ run[r].distinfo_dir = << "pkg", "-" >> \o V100 \o DistInfoSuffix
        /\ run[r].dist_info_dir = << "foo", "-" >> \o V100 \o DistInfoSuffix
        /\ PublishedArchive(r).dirs[run[r].dist_info_dir].variant = << "v1" >>

\* The calls of read_configuration that returned a result.
ReturnedFrom(r) == run[r].entry = "read_configuration" /\ run[r].pc = "done"

\* C20, the results: calls with the same triple that returned, however their
\* lookups and computations interleaved, returned equal mappings.
C20_EqualMappings ==
    \A r1, r2 \in Runs :
        (ReturnedFrom(r1) /\ ReturnedFrom(r2) /\ Key(run[r1]) = Key(run[r2]))
            => run[r1].cfg = run[r2].cfg

\* C20, the sharing: a call that started after a call with its triple had
\* completed is served from the cache, so it never gets to load the file.
C20_ServedAfterCompletion ==
    \A r \in Runs :
        run[r].pc = "rc_compute" => run[r].hist = << >>

\* C20, the keys: every stored result is what read_configuration computes
\* for the triple it is stored under, and no triple is stored twice.
C20_StoredUnderOwnKey ==
    /\ \A i \in 1..Len(cache) :
          LET key == cache[i].key
              res == read_configuration(cfgfiles[key[1]], key[2], key[3])
          IN  res.err = NoErr /\ cache[i].value = res.value
    /\ \A i, j \in 1..Len(cache) : cache[i].key = cache[j].key => i = j

\* C20: when several callers concurrently call read_configuration with one
\* triple not computed yet, all of them obtain equal mappings; once one such
\* call has completed, every call with that triple that starts afterwards is
\* served the stored result; no result is stored under another key than the
\* triple it was computed for.
C20_ConcurrentCallersShare ==
    /\ C20_EqualMappings
    /\ C20_ServedAfterCompletion
    /\ C20_StoredUnderOwnKey

\* C20's permitted race: two callers both loaded the file for one triple and
\* both returned.
C20_RaceWitness ==
    \E r1, r2 \in Runs :
        /\ r1 # r2
        /\ ReturnedFrom(r1) /\ ReturnedFrom(r2)
        /\ Key(run[r1]) = Key(run[r2])
        /\ reads[Key(run[r1])] = 2
        /\ run[r1].hist = << >> /\ run[r2].hist = << >>

\* C20's sharing at work: a call that started after one with its triple had
\* returned was served the stored result, the file loaded once.
C20_SharedWitness ==
    \E r \in Runs :
        /\ ReturnedFrom(r)
        /\ run[r].hist # << >>
        /\ reads[Key(run[r])] = 1

\* The run unpacked an archive that has no directory whose name ends in
\* '.dist-info'.
UnpackedWithoutDistInfo(r) ==
    /\ Made(r)
    /\ Count("unpack", run[r].hist) = 1
    /\ \A d \in DOMAIN InitialFs[run[r].args.input_dir][run[r].args.input_name].dirs :
          ~EndsWith(d, DistInfoSuffix)

\* C21: a run of make_variant whose unpacked directory has no subdirectory
\* named *.dist-info gets no further than the lookup: it raises the
\* FileNotFoundError of the lookup, with no descriptor written, no record
\* rewritten, no directory renamed and no repack attempted; when it has
\* ended, it has failed, its scratch directory is removed and the
\* directories of archives are as they were.
C21_NoDistInfoAborts ==
    \A r \in Runs : UnpackedWithoutDistInfo(r) =>
        LET s == run[r]
        IN  /\ s.pc \in { "mv_find", "mv_cleanup", "failed" }
            /\ s.pc # "mv_find" => s.err = Error("FileNotFoundError", "mv_find")
            /\ \A what \in { "rename dist-info", "write descriptor", "write METADATA",
                             "pack", "move" } : Count(what, s.hist) = 0
            /\ s.variant_label # NoStr
            /\ fs = InitialFs
            /\ s.pc = "failed" =>
                  /\ s.scratch \notin DOMAIN trees
                  /\ Count("rmtree", s.hist) = 1

\* C21's case: the run on any-1.0.0-py3-none-any.whl, unpacked without a
\* dist-info directory, has ended.
C21_Witness ==
    \E r \in Runs :
        /\ UnpackedWithoutDistInfo(r)
        /\ run[r].args.input_name = ArchiveFileName(<< << "pkg" >>, << >>, << >>, "nodistinfo" >>)
        /\ run[r].pc = "failed"
        /\ run[r].err = Error("FileNotFoundError", "mv_find")
        /\ trees = << >>

====
